---- MODULE Spec2Model ----
(***************************************************************************)
(* A model of bpc.py, the brainfuck-to-python compiler: the CodeBuilder,   *)
(* the Tokenizer, the three compilers (Compiler0, Compiler1, Compiler2),   *)
(* the compile() driver, and the semantics of the python statements the    *)
(* compilers emit.                                                         *)
(*                                                                         *)
(* A source text is a sequence of one-character strings.  A line of the    *)
(* builder is a record [indent, ch, text]: `indent` copies of the          *)
(* indentation character `ch` followed by the statement `text`.  A         *)
(* statement is a record [k, ptr, op, n, txt] holding the pieces the       *)
(* python format strings are filled with: k names the format string, ptr   *)
(* is the relative pointer string, op the operator, n the number, txt the  *)
(* comment's characters.                                                   *)
(***************************************************************************)
EXTENDS Integers, Sequences, FiniteSets, TLC

\* Longest source text handed to compile().
MaxLen == 3

\* Tokenizer.instruction_set
instruction_set == {"+", "-", "<", ">", ".", ",", "]", "["}

\* The characters that are not instructions: a letter, a blank, a line break.
CommentChars == {"a", " ", "\n"}

Alphabet == instruction_set \cup CommentChars

Sources == UNION {[1..n -> Alphabet] : n \in 0..MaxLen}

\* What str.strip() removes from both ends.
Whitespace == {" ", "\n"}

\* The width of a row of the memory dump (dump_step=16).
dump_step == 16

None == "None"

-----------------------------------------------------------------------------
(* Statements: the python format strings of the compilers.                 *)

\* 'p'
BarePointer == [sign |-> "", off |-> 0]

Stmt(k, ptr, op, n, txt) == [k |-> k, ptr |-> ptr, op |-> op, n |-> n, txt |-> txt]

Plain(k) == Stmt(k, BarePointer, "", 0, <<>>)

\* 'm[%s] %s= %d'
CellStmt(ptr, op, n) == Stmt("cell", ptr, op, n, <<>>)
\* 'p = (%s) %% %d'
MoveStmt(ptr, memory_size) == Stmt("move", ptr, "", memory_size, <<>>)
\* 'm[%s] = int(raw_input("Insert a number: ") or 0)'
ReadStmt(ptr) == Stmt("read", ptr, "", 0, <<>>)
\* 'print m[%s]'
PrintStmt(ptr) == Stmt("print", ptr, "", 0, <<>>)
\* 'while m[%s]:'
WhileStmt(ptr) == Stmt("while", ptr, "", 0, <<>>)
\* '# ' + comment
CommentStmt(txt) == Stmt("comment", BarePointer, "", 0, txt)

\* The statement kinds whose text starts with '#'.
HashKinds == {"coding", "comment", "dump_comment"}

-----------------------------------------------------------------------------
(* CodeBuilder                                                             *)

CodeBuilder(indent_size, indent_char) ==
    [code |-> <<>>, indent |-> 0, indent_size |-> indent_size, indent_char |-> indent_char]

\* start_block, were it to add one character whatever the indentation width.
start_block_one(bd) == [bd EXCEPT !.indent = @ + 1]

start_block(bd) == [bd EXCEPT !.indent = @ + bd.indent_size]

\* The decrement of end_block; its assertion is end_block_ok of the result.
end_block(bd) == [bd EXCEPT !.indent = @ - bd.indent_size]

\* end_block, were its assertion left out.
end_block_unchecked(bd) == TRUE

\* assert self.indent >= 0
end_block_ok(bd) == bd.indent >= 0

\* statements: the physical lines of the text, as str.split('\n') gives them.
append(bd, statements) ==
    [bd EXCEPT !.code = @ \o [j \in 1..Len(statements) |->
        [indent |-> bd.indent, ch |-> bd.indent_char, text |-> statements[j]]]]

\* re.match(r'^\s*#', row): the indentation is whitespace, so the row matches
\* when its statement starts with '#'.
is_comment_row(row) == row.text.k \in HashKinds

BlankRow == [indent |-> 0, ch |-> " ", text |-> Plain("blank")]

\* stream_code, were it to forget that the first row has no row before it.
RECURSIVE stream_code_no_first(_, _, _, _)
stream_code_no_first(rows, j, comment, first_line) ==
    IF j > Len(rows) THEN <<>>
    ELSE LET row == rows[j]
             isc == is_comment_row(row)
             pre == IF isc /\ ~comment THEN <<BlankRow>> ELSE <<>>
         IN pre \o <<row>> \o stream_code_no_first(rows, j + 1, isc, FALSE)

RECURSIVE stream_code_from(_, _, _, _)
stream_code_from(rows, j, comment, first_line) ==
    IF j > Len(rows) THEN <<>>
    ELSE LET row == rows[j]
             isc == is_comment_row(row)
             pre == IF isc /\ ~comment /\ ~first_line THEN <<BlankRow>> ELSE <<>>
         IN pre \o <<row>> \o stream_code_from(rows, j + 1, isc, FALSE)

stream_code(bd) == stream_code_from(bd.code, 1, FALSE, TRUE)

\* '\n'.join(...): the text as the sequence of its lines.
get_code(bd) == stream_code(bd)

-----------------------------------------------------------------------------
(* The compilers.  A frame f = [self, builder, exc] is a compiler object,  *)
(* the builder it writes to, and the exception a handler has raised        *)
(* (None when it returned).                                                *)

UnmatchedError == "AssertionError"
UnclosedError == "AssertionError: Some loops are not closed"

Frame(self, bd, exc) == [self |-> self, builder |-> bd, exc |-> exc]

Emit(f, statements) == [f EXCEPT !.builder = append(@, statements)]

write_incipit(f) ==
    Emit(Emit(Emit(f, <<Plain("coding")>>),
              <<Stmt("alloc", BarePointer, "", f.self.memory_size, <<>>)>>),
         <<Plain("p0")>>)

accumulated == {"+", "-", "<", ">"}

\* Compiler0.__init__, Compiler1.__init__, Compiler2.__init__
NewCompiler(cls, bd, memory_size, comments, dump_memory) ==
    write_incipit(Frame([cls |-> cls, memory_size |-> memory_size,
                         dump_memory |-> dump_memory, comments |-> comments,
                         operation |-> None, times |-> 0, pointer_move |-> 0],
                        bd, None))

\* self.builder.end_block(), with its assertion
EndBlock(f) ==
    LET bd == end_block(f.builder)
    IN [f EXCEPT !.builder = bd,
                 !.exc = IF end_block_ok(bd) THEN None ELSE UnmatchedError]

on_instruction0(f, instruction) ==
    CASE instruction \in {"+", "-"} ->
            Emit(f, <<CellStmt(BarePointer, instruction, 1)>>)
      [] instruction = "<" ->
            Emit(f, <<MoveStmt([sign |-> "-", off |-> 1], f.self.memory_size)>>)
      [] instruction = ">" ->
            Emit(f, <<MoveStmt([sign |-> "+", off |-> 1], f.self.memory_size)>>)
      [] instruction = "," -> Emit(f, <<ReadStmt(BarePointer)>>)
      [] instruction = "." -> Emit(f, <<PrintStmt(BarePointer)>>)
      [] instruction = "[" ->
            [Emit(f, <<WhileStmt(BarePointer)>>) EXCEPT !.builder = start_block(@)]
      [] instruction = "]" -> EndBlock(f)
      [] OTHER -> f

\* The lines of the text _write_dump_memory appends; the text ends with a
\* line break, so its last line is empty.
DumpLines(memory_size) ==
    << Plain("dump_banner"), Plain("dump_pointer"), Plain("dump_label"),
       Stmt("dump_pad", BarePointer, "", memory_size, <<>>),
       Plain("dump_format"),
       Stmt("dump_for", BarePointer, "", memory_size, <<>>),
       Plain("dump_row"), Plain("blank") >>

_write_dump_memory(f) ==
    Emit(IF f.self.comments THEN Emit(f, <<Plain("dump_comment")>>) ELSE f,
         DumpLines(f.self.memory_size))

\* on_finish, were its assertion left out.
on_finish0_unchecked(f) ==
    IF f.self.dump_memory THEN _write_dump_memory(f) ELSE f

on_finish0(f) ==
    IF f.builder.indent # 0 THEN [f EXCEPT !.exc = UnclosedError]
    ELSE IF f.self.dump_memory THEN _write_dump_memory(f) ELSE f

\* Compiler1

\* _flush, were it to forget the count of a run of '+' or '-'.
_flush1_single(f) ==
    LET s == f.self
    IN CASE s.operation \in {"+", "-"} ->
              Emit(f, <<CellStmt(BarePointer, s.operation, 1)>>)
         [] s.operation = "<" ->
              Emit(f, <<MoveStmt([sign |-> "-", off |-> s.times], s.memory_size)>>)
         [] s.operation = ">" ->
              Emit(f, <<MoveStmt([sign |-> "+", off |-> s.times], s.memory_size)>>)
         [] OTHER -> f

_flush1(f) ==
    LET s == f.self
    IN CASE s.operation \in {"+", "-"} ->
              Emit(f, <<CellStmt(BarePointer, s.operation, s.times)>>)
         [] s.operation = "<" ->
              Emit(f, <<MoveStmt([sign |-> "-", off |-> s.times], s.memory_size)>>)
         [] s.operation = ">" ->
              Emit(f, <<MoveStmt([sign |-> "+", off |-> s.times], s.memory_size)>>)
         [] OTHER -> f

on_finish1(f) == on_finish0(_flush1(f))

\* on_instruction, were a different accumulable instruction to start its run
\* without flushing the pending one.
on_instruction1_unflushed(f, instruction) ==
    IF instruction \in accumulated
    THEN IF instruction = f.self.operation
         THEN [f EXCEPT !.self.times = @ + 1]
         ELSE [f EXCEPT !.self.times = 1, !.self.operation = instruction]
    ELSE on_instruction0([_flush1(f) EXCEPT !.self.times = 0, !.self.operation = None],
                         instruction)

\* on_instruction, were a new run to start counting from zero.
on_instruction1_from_zero(f, instruction) ==
    IF instruction \in accumulated
    THEN IF instruction = f.self.operation
         THEN [f EXCEPT !.self.times = @ + 1]
         ELSE [_flush1(f) EXCEPT !.self.times = 0, !.self.operation = instruction]
    ELSE on_instruction0([_flush1(f) EXCEPT !.self.times = 0, !.self.operation = None],
                         instruction)

on_instruction1(f, instruction) ==
    IF instruction \in accumulated
    THEN IF instruction = f.self.operation
         THEN [f EXCEPT !.self.times = @ + 1]
         ELSE [_flush1(f) EXCEPT !.self.times = 1, !.self.operation = instruction]
    ELSE on_instruction0([_flush1(f) EXCEPT !.self.times = 0, !.self.operation = None],
                         instruction)

\* Compiler2

Abs(x) == IF x < 0 THEN -x ELSE x

\* _get_relative_pointer_string, were it to lose the sign of the offset.
_get_relative_pointer_string_unsigned(f) ==
    IF f.self.pointer_move # 0
    THEN [sign |-> "+", off |-> Abs(f.self.pointer_move)]
    ELSE BarePointer

_get_relative_pointer_string(f) ==
    IF f.self.pointer_move # 0
    THEN [sign |-> IF f.self.pointer_move > 0 THEN "+" ELSE "-",
          off |-> Abs(f.self.pointer_move)]
    ELSE BarePointer

_flush2(f) ==
    LET s == f.self
    IN CASE s.operation \in {"+", "-"} ->
              Emit(f, <<CellStmt(_get_relative_pointer_string(f), s.operation, s.times)>>)
         [] s.operation = "<" -> [f EXCEPT !.self.pointer_move = @ - s.times]
         [] s.operation = ">" -> [f EXCEPT !.self.pointer_move = @ + s.times]
         [] OTHER -> f

\* _commit_pointer, were it to leave the offset as it is.
_commit_pointer_keep(f) ==
    IF f.self.pointer_move # 0
    THEN Emit(f, <<MoveStmt(_get_relative_pointer_string(f), f.self.memory_size)>>)
    ELSE f

_commit_pointer(f) ==
    IF f.self.pointer_move # 0
    THEN [Emit(f, <<MoveStmt(_get_relative_pointer_string(f), f.self.memory_size)>>)
            EXCEPT !.self.pointer_move = 0]
    ELSE f

on_instruction2(f, instruction) ==
    IF instruction \in accumulated /\ instruction = f.self.operation
    THEN [f EXCEPT !.self.times = @ + 1]
    ELSE LET g == [_flush2(f) EXCEPT !.self.times = 1, !.self.operation = instruction]
         IN CASE instruction = "," -> Emit(g, <<ReadStmt(_get_relative_pointer_string(g))>>)
              [] instruction = "." -> Emit(g, <<PrintStmt(_get_relative_pointer_string(g))>>)
              [] instruction = "[" ->
                    LET h == _commit_pointer(g)
                    IN [Emit(h, <<WhileStmt(_get_relative_pointer_string(h))>>)
                          EXCEPT !.builder = start_block(@)]
              [] instruction = "]" -> EndBlock(_commit_pointer(g))
              [] OTHER -> g

\* Compiler0.on_comment, which the three classes share

\* str.split('\n')
RECURSIVE split_lines(_)
split_lines(s) ==
    IF \A j \in 1..Len(s) : s[j] # "\n" THEN <<s>>
    ELSE LET j == CHOOSE x \in 1..Len(s) : s[x] = "\n" /\ \A y \in 1..(x - 1) : s[y] # "\n"
         IN <<SubSeq(s, 1, j - 1)>> \o split_lines(SubSeq(s, j + 1, Len(s)))

\* str.strip()
strip(s) ==
    LET keep == {j \in 1..Len(s) : s[j] \notin Whitespace}
    IN IF keep = {} THEN <<>>
       ELSE SubSeq(s, CHOOSE a \in keep : \A b \in keep : a <= b,
                      CHOOSE a \in keep : \A b \in keep : a >= b)

RECURSIVE append_comments(_, _, _)
append_comments(f, parts, j) ==
    IF j > Len(parts) THEN f
    ELSE LET c == strip(parts[j])
         IN append_comments(IF c # <<>> THEN Emit(f, <<CommentStmt(c)>>) ELSE f,
                            parts, j + 1)

\* on_comment, were a comment run to end the pending run of Compiler1.
on_comment_flushing(f, comment) ==
    append_comments(IF f.self.cls = 1
                    THEN [_flush1(f) EXCEPT !.self.times = 0, !.self.operation = None]
                    ELSE f,
                    split_lines(comment), 1)

on_comment(f, comment) == append_comments(f, split_lines(comment), 1)

\* The method the object's class binds to each handler name.
on_instruction(f, instruction) ==
    CASE f.self.cls = 0 -> on_instruction0(f, instruction)
      [] f.self.cls = 1 -> on_instruction1(f, instruction)
      [] OTHER -> on_instruction2(f, instruction)

on_finish(f) == IF f.self.cls = 1 THEN on_finish1(f) ELSE on_finish0(f)

-----------------------------------------------------------------------------
(* Tokenizer                                                               *)

\* The handlers a compiler registers in Compiler0.__init__.
registered(comments) ==
    [instruction |-> <<"on_instruction">>,
     finish |-> <<"on_finish">>,
     comment |-> IF comments THEN <<"on_comment">> ELSE <<>>]

InstructionEvent(c, pos) ==
    [type |-> "instruction", text |-> <<c>>, start |-> pos, end |-> pos + 1]
CommentEvent(text, start, end) ==
    [type |-> "comment", text |-> text, start |-> start, end |-> end]
FinishEvent(pos) == [type |-> "finish", text |-> <<>>, start |-> pos, end |-> pos]

call_handler(f, ev) ==
    CASE ev.type = "instruction" -> on_instruction(f, ev.text[1])
      [] ev.type = "comment" -> on_comment(f, ev.text)
      [] OTHER -> on_finish(f)

\* Tokenizer._invoke_handlers: the handlers of the event's type, in
\* registration order; an exception ends the loop.
RECURSIVE invoke_from(_, _, _, _)
invoke_from(f, hs, j, ev) ==
    IF j > Len(hs) \/ f.exc # None THEN f
    ELSE invoke_from(call_handler(f, ev), hs, j + 1, ev)

_invoke_handlers(f, handlers, ev) == invoke_from(f, handlers[ev.type], 1, ev)

\* The inner loop of tokenize, were it to stop after one character.
comment_end_one(src, i) == i + 1

\* The inner loop of tokenize: the offset after the run of non-instruction
\* characters that starts at offset i (offsets count from 0).
RECURSIVE comment_end(_, _)
comment_end(src, i) ==
    IF i < Len(src) /\ src[i + 1] \notin instruction_set
    THEN comment_end(src, i + 1) ELSE i

\* code[start:end]
Slice(src, start, end) == SubSeq(src, start + 1, end)

\* next_event, were the loop of tokenize to stop one character early.
next_event_early(src, i) ==
    IF i < Len(src) - 1
    THEN IF src[i + 1] \in instruction_set
         THEN InstructionEvent(src[i + 1], i)
         ELSE CommentEvent(Slice(src, i, comment_end(src, i)), i, comment_end(src, i))
    ELSE FinishEvent(i)

\* The event tokenize dispatches when its index is i: an instruction, a
\* comment run, or, past the last character, finish.
next_event(src, i) ==
    IF i < Len(src)
    THEN IF src[i + 1] \in instruction_set
         THEN InstructionEvent(src[i + 1], i)
         ELSE CommentEvent(Slice(src, i, comment_end(src, i)), i, comment_end(src, i))
    ELSE FinishEvent(i)

\* Tokenizer.tokenize from index i on: the frame when it returns or raises.
RECURSIVE tokenize(_, _, _, _)
tokenize(f, handlers, src, i) ==
    LET ev == next_event(src, i)
        g == _invoke_handlers(f, handlers, ev)
    IN IF ev.type = "finish" \/ g.exc # None THEN g
       ELSE tokenize(g, handlers, src, ev.end)

-----------------------------------------------------------------------------
(* compile()                                                               *)

Args(memory, comments, dump, indent, tab_indent, optimizations) ==
    [memory |-> memory, comments |-> comments, dump |-> dump, indent |-> indent,
     tab_indent |-> tab_indent, optimizations |-> optimizations]

\* The assertions of compile(), were the one on the indentation width missing.
valid_args_no_indent(a) == a.memory > 0 /\ a.optimizations \in {0, 1, 2}

\* The three assertions of compile().
valid_args(a) == a.memory > 0 /\ a.indent > 0 /\ a.optimizations \in {0, 1, 2}

\* The assertion error of the first assertion that fails.
ConfigError(a) ==
    IF ~(a.memory > 0) THEN "AssertionError: Memory must be larger than 0"
    ELSE IF ~(a.indent > 0) THEN "AssertionError: Indentation width must be larger than 0"
    ELSE "AssertionError: Optimization level must be 0, 1 or 2"

\* The builder and the compiler compile() constructs.
construct(a) ==
    NewCompiler(a.optimizations,
                CodeBuilder(a.indent, IF a.tab_indent THEN "\t" ELSE " "),
                a.memory, a.comments, a.dump)

\* The frame compile() ends with: the builder as the tokenizer left it and the
\* exception, if a handler raised one.
compile_frame(src, a) == tokenize(construct(a), registered(a.comments), src, 0)

\* The text compile() returns, None when it raises.
compile(src, a) ==
    IF ~valid_args(a) THEN None
    ELSE LET f == compile_frame(src, a)
         IN IF f.exc # None THEN None ELSE get_code(f.builder)

-----------------------------------------------------------------------------
(* One call of compile(code, memory, comments, dump, indent, tab_indent,   *)
(* optimizations), step by step.                                           *)

VARIABLES
    code,      \* the source text
    args,      \* the other arguments of compile()
    pc,        \* where the call is: "start", "tokenize", "get_code", "returned", "raised"
    i,         \* the index of Tokenizer.tokenize
    handlers,  \* Tokenizer.handlers
    events,    \* the calls of _invoke_handlers so far
    compiler,  \* the compiler object
    builder,   \* the CodeBuilder
    exc,       \* the exception the call raised, None when none
    result,    \* the text the call returned, None when none
    input,     \* the numbers the generated program will read
    machines   \* the runs of the generated programs

vars == <<code, args, pc, i, handlers, events, compiler, builder, exc, result,
          input, machines>>

NoCompiler == [cls |-> 0, memory_size |-> 0, dump_memory |-> FALSE, comments |-> FALSE,
               operation |-> None, times |-> 0, pointer_move |-> 0]

NoHandlers == [instruction |-> <<>>, finish |-> <<>>, comment |-> <<>>]

\* The state before compile() is entered.
Entry(src, a) ==
    /\ code = src
    /\ args = a
    /\ pc = "start"
    /\ i = 0
    /\ handlers = NoHandlers
    /\ events = <<>>
    /\ compiler = NoCompiler
    /\ builder = CodeBuilder(0, " ")
    /\ exc = None
    /\ result = None

Init ==
    /\ \E src \in Sources, comments \in BOOLEAN, optimizations \in {0, 1, 2} :
          Entry(src, Args(2, comments, FALSE, 2, FALSE, optimizations))
    /\ input = <<>>
    /\ machines = <<>>

\* compile(), up to the call of tokenizer.tokenize.
Compile ==
    /\ pc = "start"
    /\ IF valid_args(args)
       THEN LET f == construct(args)
            IN /\ compiler' = f.self
               /\ builder' = f.builder
               /\ handlers' = registered(args.comments)
               /\ pc' = "tokenize"
               /\ exc' = None
       ELSE /\ pc' = "raised"
            /\ exc' = ConfigError(args)
            /\ UNCHANGED <<compiler, builder, handlers>>
    /\ UNCHANGED <<code, args, i, events, result, input, machines>>

\* One call of _invoke_handlers by tokenize, and what tokenize does next.
Dispatch(ev) ==
    \E f \in {_invoke_handlers(Frame(compiler, builder, None), handlers, ev)} :
       /\ events' = Append(events, ev)
       /\ compiler' = f.self
       /\ builder' = f.builder
       /\ exc' = f.exc
       /\ IF f.exc # None
          THEN pc' = "raised" /\ i' = i
          ELSE /\ i' = ev.end
               /\ pc' = IF ev.type = "finish" THEN "get_code" ELSE "tokenize"
       /\ UNCHANGED <<code, args, handlers, result, input, machines>>

\* tokenize meets an instruction character.
TokenizeInstruction ==
    /\ pc = "tokenize"
    /\ next_event(code, i).type = "instruction"
    /\ Dispatch(next_event(code, i))

\* tokenize meets a run of other characters.
TokenizeComment ==
    /\ pc = "tokenize"
    /\ next_event(code, i).type = "comment"
    /\ Dispatch(next_event(code, i))

\* tokenize leaves its loop.
TokenizeFinish ==
    /\ pc = "tokenize"
    /\ next_event(code, i).type = "finish"
    /\ Dispatch(next_event(code, i))

\* return builder.get_code()
GetCode ==
    /\ pc = "get_code"
    /\ result' = get_code(builder)
    /\ pc' = "returned"
    /\ UNCHANGED <<code, args, i, handlers, events, compiler, builder, exc, input, machines>>

Next == Compile \/ TokenizeInstruction \/ TokenizeComment \/ TokenizeFinish \/ GetCode

Spec == Init /\ [][Next]_vars

-----------------------------------------------------------------------------
(* The loop structure of a source text.                                    *)

\* The '[' minus the ']' among the first k characters.
RECURSIVE OpenLoops(_, _)
OpenLoops(src, k) ==
    IF k = 0 THEN 0
    ELSE OpenLoops(src, k - 1)
         + (IF src[k] = "[" THEN 1 ELSE IF src[k] = "]" THEN -1 ELSE 0)

\* The positions (from 1) of the ']' that close no earlier '['.
UnmatchedCloses(src) == {k \in 1..Len(src) : OpenLoops(src, k) < 0}

\* The offset (from 0) of the first ']' that closes no earlier '['.
FirstUnmatched(src) ==
    (CHOOSE k \in UnmatchedCloses(src) : \A j \in UnmatchedCloses(src) : k <= j) - 1

WellFormed(src) == UnmatchedCloses(src) = {} /\ OpenLoops(src, Len(src)) = 0

Unclosed(src) == UnmatchedCloses(src) = {} /\ OpenLoops(src, Len(src)) > 0

Last(s) == s[Len(s)]

-----------------------------------------------------------------------------
(* Structural errors                                                       *)

\* C3: in every tier a ']' that closes no earlier '[' makes the call raise the
\* assertion error of end_block at that event: the ']' is the last event
\* dispatched, whatever precedes or follows it, and no text is returned.
UnmatchedCloseAborts ==
    UnmatchedCloses(code) # {} =>
        LET k == FirstUnmatched(code)
        IN /\ i <= k
           /\ \A j \in 1..Len(events) : events[j].start <= k
           /\ result = None
           /\ pc \in {"start", "tokenize", "raised"}
           /\ (events # <<>> /\ Last(events).start = k) =>
                 (pc = "raised" /\ exc = UnmatchedError)
           /\ (pc = "raised" \/ exc # None) =>
                 /\ pc = "raised"
                 /\ exc = UnmatchedError
                 /\ events # <<>>
                 /\ Last(events) = InstructionEvent("]", k)

UnmatchedCloseSeen ==
    /\ pc = "raised"
    /\ exc = UnmatchedError
    /\ args.optimizations = 2
    /\ 0 < i
    /\ i + 1 < Len(code)

\* C4: in every tier a source with a '[' left open (and no unmatched ']')
\* raises the unclosed-loop error, and raises it when finish is handled,
\* after the whole source was scanned: never earlier, and no text is returned.
UnclosedLoopFailsAtFinish ==
    Unclosed(code) =>
        /\ result = None
        /\ pc \in {"start", "tokenize", "raised"}
        /\ (pc # "raised") => exc = None
        /\ (pc = "raised") =>
              /\ exc = UnclosedError
              /\ i = Len(code)
              /\ Last(events).type = "finish"
              /\ \A j \in 1..(Len(events) - 1) : events[j].type # "finish"

UnclosedLoopSeen ==
    /\ pc = "raised"
    /\ exc = UnclosedError
    /\ args.optimizations = 1
    /\ compiler.operation # None
    /\ Len(code) > 1

\* C5: a well-formed source never raises, in any tier; after each event the
\* builder's indentation is indent_size times the number of open loops, and
\* it is zero once finish is handled.
WellFormedIndentation ==
    WellFormed(code) =>
        /\ exc = None
        /\ pc # "raised"
        /\ (pc # "start") => builder.indent = args.indent * OpenLoops(code, i)
        /\ (pc \in {"get_code", "returned"}) => builder.indent = 0

WellFormedLoopCompiled ==
    /\ pc = "tokenize"
    /\ WellFormed(code)
    /\ builder.indent = args.indent
    /\ args.indent > 1
    /\ args.optimizations = 2

-----------------------------------------------------------------------------
(* Comments                                                                *)

NotComment(row) == ~is_comment_row(row)

\* The rows that are not comment lines.
Executable(rows) == SelectSeq(rows, NotComment)

IsInstruction(c) == c \in instruction_set

\* The source without its comment runs.
StripComments(src) == SelectSeq(src, IsInstruction)

\* C7: with comments enabled, in every tier, the executable lines the builder
\* holds when the call ends are those it holds for the source with every
\* comment run removed.
CommentNeutrality ==
    (pc \in {"get_code", "returned", "raised"} /\ args.comments) =>
        Executable(builder.code)
            = Executable(compile_frame(StripComments(code), args).builder.code)

CommentInsideRun ==
    /\ pc = "returned"
    /\ args.comments
    /\ args.optimizations = 1
    /\ Len(code) = 3
    /\ code[1] \in accumulated
    /\ code[2] = "a"
    /\ code[3] = code[1]

-----------------------------------------------------------------------------
(* Tokenizer                                                               *)

NoFinishBefore(n) == \A j \in 1..n : events[j].type # "finish"

EventOrder ==
    /\ \A j \in 1..(Len(events) - 1) : events[j].start < events[j + 1].start
    /\ NoFinishBefore(Len(events) - 1)
    /\ (events # <<>> /\ Last(events).type = "finish") =>
          /\ i = Len(code)
          /\ Last(events).start = Len(code)
          /\ Len(events) > 1 => events[Len(events) - 1].end = Len(code)
    /\ (pc \in {"get_code", "returned"}) =>
          (events # <<>> /\ Last(events).type = "finish")
    /\ (pc \in {"start", "tokenize"}) => NoFinishBefore(Len(events))

\* What is left of the call: the characters tokenize has not passed, and
\* the steps of compile() around the scan.
Remaining ==
    CASE pc = "start" -> Len(code) + 3
      [] pc = "tokenize" -> Len(code) - i + 2
      [] pc = "get_code" -> 1
      [] OTHER -> 0

\* The steps the call has taken: one for each event dispatched, one for the
\* construction and one for the return.
StepsTaken ==
    Len(events) + (IF pc = "start" THEN 0 ELSE 1) + (IF pc = "returned" THEN 1 ELSE 0)

CallOver == pc \in {"returned", "raised"}

\* Every pass of the loop of tokenize has an event to dispatch and moves the
\* index forward, until the index is at the end and finish is dispatched.
LoopAdvances ==
    (pc = "tokenize") =>
        LET ev == next_event(code, i)
        IN /\ i <= Len(code)
           /\ ev.start = i
           /\ ev.end <= Len(code)
           /\ IF i < Len(code) THEN ev.type # "finish" /\ ev.end > i
              ELSE ev.type = "finish"

\* C8: the events are dispatched in the order of the source, finish is
\* dispatched once, after every other event (also for the empty source), and
\* the call ends: every step taken leaves less of it, every pass of the loop
\* moves forward, and the call is over only when it has returned or a handler
\* has raised.
TokenizerOrderAndFinish ==
    /\ EventOrder
    /\ LoopAdvances
    /\ Remaining >= 0
    /\ StepsTaken + Remaining <= Len(code) + 3
    /\ CallOver => (pc = "returned" \/ exc # None)

FinishAfterEvents ==
    /\ pc = "returned"
    /\ Len(events) = 4
    /\ events[1].type = "comment"
    /\ events[2].type = "instruction"

RECURSIVE ConcatTexts(_, _)
ConcatTexts(evs, n) == IF n = 0 THEN <<>> ELSE ConcatTexts(evs, n - 1) \o evs[n].text

\* C9: one instruction event per instruction character and one comment event
\* per maximal run of other characters: a comment text is not empty, holds no
\* instruction, is code[start:end], two comment events never follow each
\* other, and the texts of the events, in order, give back the source.
TokenizerEvents ==
    /\ \A j \in 1..Len(events) :
          LET e == events[j]
          IN /\ e.text = Slice(code, e.start, e.end)
             /\ e.type = "instruction" =>
                   (e.end = e.start + 1 /\ e.text[1] \in instruction_set)
             /\ e.type = "comment" =>
                   /\ e.text # <<>>
                   /\ \A x \in 1..Len(e.text) : e.text[x] \notin instruction_set
             /\ (j > 1 /\ e.type = "comment") => events[j - 1].type # "comment"
             /\ j > 1 => e.start = events[j - 1].end
             /\ j = 1 => e.start = 0
    /\ (events # <<>> /\ exc = None) =>
          ConcatTexts(events, Len(events)) = Slice(code, 0, i)
    /\ (pc \in {"get_code", "returned"}) =>
          ConcatTexts(events, Len(events)) = code

CommentRunTokenized ==
    /\ pc = "returned"
    /\ \E j \in 1..(Len(events) - 1) :
          /\ events[j].type = "comment"
          /\ Len(events[j].text) = 2
          /\ events[j + 1].type = "instruction"

-----------------------------------------------------------------------------
(* The generated program: what python does with the text compile()         *)
(* returns.  A machine is one run of one text: the statements, the index   *)
(* of the next one, the list m, the pointer p, what was printed, the       *)
(* numbers still to be read, and how the run stands.                       *)

\* Longest program that is run.
MaxProg == 4

\* Statements a run may execute before it is cut off.
MaxSteps == 20

\* The sizes of the memory that are run.
MemorySizes == {1, 2}

\* The numbers typed at the prompts.
InputSeqs == {<<>>, <<2>>, <<1, 2>>}

Programs == {src \in UNION {[1..n -> instruction_set] : n \in 0..MaxProg} : WellFormed(src)}

\* The blanks the text of a statement itself starts with.
Lead(row) == IF row.text.k = "dump_row" THEN 4 ELSE 0

\* The column a row's statement starts at.
Ind(row) == row.indent + Lead(row)

IsStatement(row) == ~is_comment_row(row) /\ row.text.k # "blank"

\* Python skips comment lines and empty lines.
Statements(text) == SelectSeq(text, IsStatement)

Headers == {"while", "dump_for"}

\* Python's indentation rules: a block opens after a header and only there,
\* and a row that closes blocks returns to the column of an enclosing row.
SyntaxOK(prog) ==
    /\ prog # <<>> => Ind(prog[1]) = 0
    /\ \A j \in 1..Len(prog) :
          IF prog[j].text.k \in Headers
          THEN j < Len(prog) /\ Ind(prog[j + 1]) > Ind(prog[j])
          ELSE j < Len(prog) => Ind(prog[j + 1]) <= Ind(prog[j])
    /\ \A j \in 2..Len(prog) :
          Ind(prog[j]) < Ind(prog[j - 1]) =>
             \E h \in 1..(j - 1) :
                /\ Ind(prog[h]) = Ind(prog[j])
                /\ \A x \in h..(j - 1) : Ind(prog[x]) >= Ind(prog[j])

\* The header of the block row j is in.
HeaderOf(prog, j) ==
    CHOOSE h \in 1..(j - 1) :
        /\ Ind(prog[h]) < Ind(prog[j])
        /\ \A x \in (h + 1)..(j - 1) : Ind(prog[x]) >= Ind(prog[j])

\* Where control goes when row j (with its block, if it is a header) is done:
\* the next row of the same block, or the header of the loop the block is the
\* body of, or past the end.
After(prog, j) ==
    LET later == {x \in (j + 1)..Len(prog) : Ind(prog[x]) <= Ind(prog[j])}
        nxt == CHOOSE x \in later : \A y \in later : x <= y
    IN IF later # {} /\ Ind(prog[nxt]) = Ind(prog[j]) THEN nxt
       ELSE IF Ind(prog[j]) = 0 THEN Len(prog) + 1
       ELSE HeaderOf(prog, j)

Zeros(n) == [j \in 1..n |-> 0]

\* The value of the relative pointer string.
PointerValue(vm, ptr) ==
    CASE ptr.sign = "+" -> vm.p + ptr.off
      [] ptr.sign = "-" -> vm.p - ptr.off
      [] OTHER -> vm.p

\* A python list takes the indices -len .. len-1.
ValidIndex(m, x) == -Len(m) <= x /\ x < Len(m)

\* The position (from 1) of m[x].
CellOf(m, x) == (IF x < 0 THEN x + Len(m) ELSE x) + 1

\* 'print ...': one printed line, its label and its numbers.
Printed(tag, v) == [tag |-> tag, v |-> v]

\* The rows the dump loop prints.
RECURSIVE DumpRows(_, _, _)
DumpRows(m, from, memory_size) ==
    IF from >= memory_size THEN <<>>
    ELSE <<Printed("row", <<from>> \o
              SubSeq(m, from + 1, IF from + dump_step < Len(m) THEN from + dump_step ELSE Len(m)))>>
         \o DumpRows(m, from + dump_step, memory_size)

Load(text, inp) ==
    LET prog == Statements(text)
    IN [prog |-> prog, pc |-> 1, m |-> <<>>, p |-> 0, out |-> <<>>, inp |-> inp,
        steps |-> 0,
        status |-> IF ~SyntaxOK(prog) THEN "SyntaxError"
                   ELSE IF prog = <<>> THEN "halted" ELSE "running"]

\* The machine moves to row nxt, or ends past the last row.
Goto(vm, nxt) ==
    [vm EXCEPT !.pc = nxt, !.steps = @ + 1,
               !.status = IF nxt > Len(vm.prog) THEN "halted" ELSE "running"]

Fail(vm, error) == [vm EXCEPT !.status = error, !.steps = @ + 1]

\* One statement of a running machine.
Execute(vm) ==
    LET t == vm.prog[vm.pc].text
        x == PointerValue(vm, t.ptr)
        c == CellOf(vm.m, x)
        done == After(vm.prog, vm.pc)
    IN CASE t.k = "alloc" -> Goto([vm EXCEPT !.m = Zeros(t.n)], done)
         [] t.k = "p0" -> Goto([vm EXCEPT !.p = 0], done)
         [] t.k = "cell" ->
              IF ~ValidIndex(vm.m, x) THEN Fail(vm, "IndexError")
              ELSE Goto([vm EXCEPT !.m[c] = IF t.op = "+" THEN @ + t.n ELSE @ - t.n], done)
         [] t.k = "move" -> Goto([vm EXCEPT !.p = x % t.n], done)
         [] t.k = "read" ->
              IF vm.inp = <<>> THEN Fail(vm, "EOFError")
              ELSE IF ~ValidIndex(vm.m, x) THEN Fail([vm EXCEPT !.inp = Tail(@)], "IndexError")
              ELSE Goto([vm EXCEPT !.m[c] = Head(vm.inp), !.inp = Tail(@)], done)
         [] t.k = "print" ->
              IF ~ValidIndex(vm.m, x) THEN Fail(vm, "IndexError")
              ELSE Goto([vm EXCEPT !.out = Append(@, Printed("cell", <<vm.m[c]>>))], done)
         [] t.k = "while" ->
              IF ~ValidIndex(vm.m, x) THEN Fail(vm, "IndexError")
              ELSE IF vm.m[c] # 0 THEN Goto(vm, vm.pc + 1) ELSE Goto(vm, done)
         [] t.k = "dump_banner" ->
              Goto([vm EXCEPT !.out = Append(@, Printed("banner", <<>>))], done)
         [] t.k = "dump_pointer" ->
              Goto([vm EXCEPT !.out = Append(@, Printed("Pointer:", <<vm.p>>))], done)
         [] t.k = "dump_label" ->
              Goto([vm EXCEPT !.out = Append(@, Printed("Memory:", <<>>))], done)
         [] t.k = "dump_pad" ->
              Goto([vm EXCEPT !.m = @ \o Zeros(dump_step - (t.n % dump_step))], done)
         [] t.k = "dump_for" ->
              Goto([vm EXCEPT !.out = @ \o DumpRows(vm.m, 0, t.n)], done)
         [] OTHER -> Goto(vm, done)

\* A machine that still runs executes one statement, unless it is cut off.
Step(vm) ==
    IF vm.status # "running" THEN vm
    ELSE IF vm.steps >= MaxSteps THEN [vm EXCEPT !.status = "cut"]
    ELSE Execute(vm)

\* Python runs the text until the run ends.
RECURSIVE RunAll(_)
RunAll(vm) == IF vm.status # "running" THEN vm ELSE RunAll(Step(vm))

Tiers == {0, 1, 2}

\* The programs of the three tiers for one source, and their runs on one input.
ExecInit ==
    /\ \E src \in Programs, memory \in MemorySizes, dump \in BOOLEAN :
          Entry(src, Args(memory, TRUE, dump, 4, FALSE, 0))
    /\ input \in InputSeqs
    /\ (\A k \in 1..Len(code) : code[k] # ",") => input = <<>>
    /\ machines = <<>>

\* compile() for each tier, and python starting on each text.
LoadPrograms ==
    /\ pc = "start"
    /\ machines' = [t \in Tiers |->
                       Load(compile(code, [args EXCEPT !.optimizations = t]), input)]
    /\ pc' = "run"
    /\ UNCHANGED <<code, args, i, handlers, events, compiler, builder, exc, result, input>>

\* Python runs each text to its end.
RunPrograms ==
    /\ pc = "run"
    /\ machines' = [t \in Tiers |-> RunAll(machines[t])]
    /\ pc' = "ended"
    /\ UNCHANGED <<code, args, i, handlers, events, compiler, builder, exc, result, input>>

ExecNext == LoadPrograms \/ RunPrograms

ExecSpec == ExecInit /\ [][ExecNext]_vars

\* What a run leaves behind.
Outcome(vm) == [status |-> vm.status, m |-> vm.m, p |-> vm.p, out |-> vm.out]

Ended == pc = "ended"

-----------------------------------------------------------------------------
(* The tiers compared                                                      *)

\* The run of tier t leaves what the run of tier 0 leaves, whenever the run
\* of tier 0 ends within the cut-off.
SameAsTier0(t) ==
    (Ended /\ machines[0].status # "cut") =>
        Outcome(machines[t]) = Outcome(machines[0])

\* C1: for every well-formed program, memory size and input, the text of
\* tier 2 leaves the cells, the pointer and the output the text of tier 0
\* leaves.
Tier2Equivalent == SameAsTier0(2)

\* C2: for every well-formed program, memory size and input, the text of
\* tier 1 leaves the cells, the pointer and the output the text of tier 0
\* leaves.
Tier1Equivalent == SameAsTier0(1)

FusedRunExecuted ==
    /\ Ended
    /\ machines[0].status = "halted"
    /\ Len(machines[1].prog) < Len(machines[0].prog)
    /\ machines[1].out # <<>>
    /\ \E j \in 1..Len(machines[1].out) : machines[1].out[j].v \notin {<<>>, <<0>>}

\* The statements of the dump epilogue.
IsStatementText(t) == t.k # "blank"
DumpStatements(memory_size) == SelectSeq(DumpLines(memory_size), IsStatementText)

\* What a run printed after 'Pointer:'.
IsPointerLine(o) == o.tag = "Pointer:"
PointerLines(vm) == SelectSeq(vm.out, IsPointerLine)

\* C6: with dump_memory, for every well-formed program and every tier, the
\* epilogue comes after every statement of the program, at indentation zero,
\* and the pointer it prints is the final pointer of the program: the one the
\* moves of the run of tier 0 lead to.
DumpPrintsFinalPointer ==
    (Ended /\ args.dump /\ machines[0].status = "halted") =>
        \A t \in Tiers :
           LET vm == machines[t]
               n == Len(DumpStatements(args.memory))
           IN /\ Len(vm.prog) >= n
              /\ \A j \in 1..n :
                    /\ vm.prog[Len(vm.prog) - n + j].text = DumpStatements(args.memory)[j]
                    /\ vm.prog[Len(vm.prog) - n + j].indent = 0
              /\ vm.status = "halted"
              /\ PointerLines(vm) = <<Printed("Pointer:", <<machines[0].p>>)>>

-----------------------------------------------------------------------------
(* A CodeBuilder on its own, under any calls of its methods.               *)

\* Deepest nesting the calls reach.
MaxDepth == 2

\* Most rows the calls append.
MaxRows == 3

IndentSizes == {1, 2, 4}

BuilderInit ==
    /\ code = <<>>
    /\ args \in {Args(1, FALSE, FALSE, indent_size, FALSE, 0) : indent_size \in IndentSizes}
    /\ pc = "builder"
    /\ i = 0
    /\ handlers = NoHandlers
    /\ events = <<>>
    /\ compiler = NoCompiler
    /\ builder = CodeBuilder(args.indent, " ")
    /\ exc = None
    /\ result = None
    /\ input = <<>>
    /\ machines = <<>>

BuilderUnchanged == UNCHANGED <<code, args, pc, i, handlers, events, compiler, result,
                                input, machines>>

\* builder.start_block()
CallStartBlock ==
    /\ pc = "builder"
    /\ exc = None
    /\ builder.indent < MaxDepth * builder.indent_size
    /\ builder' = start_block(builder)
    /\ exc' = None
    /\ BuilderUnchanged

\* builder.end_block(): the decrement, then the assertion
CallEndBlock ==
    /\ pc = "builder"
    /\ exc = None
    /\ builder' = end_block(builder)
    /\ exc' = IF end_block_ok(builder') THEN None ELSE UnmatchedError
    /\ BuilderUnchanged

\* builder.append(statement)
CallAppend ==
    /\ pc = "builder"
    /\ exc = None
    /\ Len(builder.code) < MaxRows
    /\ \E statement \in {WhileStmt(BarePointer), CellStmt(BarePointer, "+", 1),
                         CommentStmt(<<"a">>), Plain("blank")} :
          builder' = append(builder, <<statement>>)
    /\ exc' = None
    /\ BuilderUnchanged

\* builder.get_code(), the last call made on the builder
CallGetCode ==
    /\ pc = "builder"
    /\ exc = None
    /\ result' = get_code(builder)
    /\ pc' = "rendered"
    /\ UNCHANGED <<code, args, i, handlers, events, compiler, builder, exc, input, machines>>

BuilderNext == CallStartBlock \/ CallEndBlock \/ CallAppend \/ CallGetCode

BuilderSpec == BuilderInit /\ [][BuilderNext]_vars

\* C10: under any calls of start_block, end_block and append the indentation
\* of a CodeBuilder is a non-negative multiple of its unit in every state; an
\* end_block at depth zero raises and does not leave the depth negative.
IndentNeverNegative ==
    /\ builder.indent >= 0
    /\ builder.indent_size > 0 => builder.indent % builder.indent_size = 0
    /\ exc = UnmatchedError => builder.indent >= 0

\* Row j of the buffer is a comment row that follows a row that is not one.
Separated(rows, j) == j > 1 /\ is_comment_row(rows[j]) /\ ~is_comment_row(rows[j - 1])

\* The separated rows among the first j rows.
SeparatedUpTo(rows, j) == Cardinality({x \in 1..j : Separated(rows, x)})

\* C11: the text get_code returns holds the rows of the buffer, unaltered and
\* in order, and one empty line right before each comment row that is not the
\* first row and follows a row that is not a comment row; it holds nothing
\* else, so that without those empty lines it is the buffer.
RenderSeparatesComments ==
    (pc = "rendered") =>
        LET rows == builder.code
        IN /\ Len(result) = Len(rows) + SeparatedUpTo(rows, Len(rows))
           /\ \A j \in 1..Len(rows) :
                 /\ result[j + SeparatedUpTo(rows, j)] = rows[j]
                 /\ Separated(rows, j) =>
                       result[j + SeparatedUpTo(rows, j) - 1] = BlankRow

CommentRowsRendered ==
    /\ pc = "rendered"
    /\ Len(builder.code) = 3
    /\ is_comment_row(builder.code[1])
    /\ Separated(builder.code, 3)
    /\ Len(result) = 4

-----------------------------------------------------------------------------
(* compile() under any configuration, valid or not.                        *)

\* The values of memory and indent, and of optimizations.
Widths == {-1, 0, 1, 2}
Levels == {-1, 0, 1, 2, 3}

\* The source texts of at most one character.
ShortSources == UNION {[1..n -> Alphabet] : n \in {0, 1}}

DriverInit ==
    /\ \E src \in ShortSources, memory \in Widths, indent \in Widths,
          optimizations \in Levels, comments \in BOOLEAN, dump \in BOOLEAN,
          tab_indent \in BOOLEAN :
          Entry(src, Args(memory, comments, dump, indent, tab_indent, optimizations))
    /\ input = <<>>
    /\ machines = <<>>

DriverSpec == DriverInit /\ [][Next]_vars

ConfigErrors ==
    {"AssertionError: Memory must be larger than 0",
     "AssertionError: Indentation width must be larger than 0",
     "AssertionError: Optimization level must be 0, 1 or 2"}

\* C12: with memory <= 0, indent <= 0 or optimizations outside {0, 1, 2}
\* compile() raises a configuration error and nothing else happens: no
\* builder, no handlers, no compiler, no event, no text.  With the three
\* valid, no configuration error is raised, and past its first step the
\* compiler is of the class optimizations selects, built on a builder of the
\* indentation asked for, with its handlers registered.
ConfigurationValidated ==
    IF args.memory <= 0 \/ args.indent <= 0 \/ args.optimizations \notin {0, 1, 2}
    THEN /\ pc \in {"start", "raised"}
         /\ events = <<>>
         /\ i = 0
         /\ handlers = NoHandlers
         /\ compiler = NoCompiler
         /\ builder = CodeBuilder(0, " ")
         /\ result = None
         /\ (pc = "raised") <=> (exc \in ConfigErrors)
         /\ (pc = "start") <=> (exc = None)
    ELSE /\ exc \notin ConfigErrors
         /\ (pc # "start") =>
               /\ compiler.cls = args.optimizations
               /\ compiler.memory_size = args.memory
               /\ compiler.comments = args.comments
               /\ compiler.dump_memory = args.dump
               /\ builder.indent_size = args.indent
               /\ builder.indent_char = (IF args.tab_indent THEN "\t" ELSE " ")
               /\ Len(handlers.instruction) = 1
               /\ Len(handlers.finish) = 1
               /\ Len(handlers.comment) = (IF args.comments THEN 1 ELSE 0)
               /\ Len(builder.code) >= 3

ConfigurationRejected ==
    /\ pc = "raised"
    /\ args.memory > 0
    /\ args.indent = 0
    /\ args.optimizations = 2
    /\ code # <<>>
    /\ exc = "AssertionError: Indentation width must be larger than 0"

-----------------------------------------------------------------------------
(* Tier 2: the pending offset and its commit points                        *)

\* The commit points of a source text: the offsets (from 1) of its '[' and
\* ']', and the offset past its end, where finish is handled.
CommitPoints(src) == {k \in 1..Len(src) : src[k] \in {"[", "]"}} \cup {Len(src) + 1}

\* The '>' minus the '<' from offset a to offset b.
RECURSIVE NetMoves(_, _, _)
NetMoves(src, a, b) ==
    IF a > b THEN 0
    ELSE NetMoves(src, a, b - 1)
         + (IF src[b] = ">" THEN 1 ELSE IF src[b] = "<" THEN -1 ELSE 0)

\* The commit point before offset k, 0 when there is none.
PreviousCommit(src, k) ==
    LET before == {c \in CommitPoints(src) : c < k}
    IN IF before = {} THEN 0 ELSE CHOOSE c \in before : \A d \in before : d <= c

\* The offset pending at commit point k: the moves since the commit point before.
PendingAt(src, k) == NetMoves(src, PreviousCommit(src, k) + 1, k - 1)

\* 'p + k', 'p - k' or 'p'
RelativePointer(k) ==
    IF k > 0 THEN [sign |-> "+", off |-> k]
    ELSE IF k < 0 THEN [sign |-> "-", off |-> -k]
    ELSE BarePointer

IsMove(row) == row.text.k = "move"

\* The pointer assignments among the rows.
Moves(rows) == SelectSeq(rows, IsMove)

\* C13: in tier 2, once finish is handled nothing is pending: the offset is
\* zero, the moves the source ends with are committed by a pointer assignment
\* that is the last statement, and the builder holds one pointer assignment
\* for each commit point reached with a nonzero offset.
Tier2CommitsAtFinish ==
    (args.optimizations = 2 /\ pc \in {"get_code", "returned"}) =>
        LET k == PendingAt(code, Len(code) + 1)
            rows == Executable(builder.code)
        IN /\ compiler.pointer_move = 0
           /\ k # 0 => Last(rows).text = MoveStmt(RelativePointer(k), args.memory)
           /\ Len(Moves(rows))
                 = Cardinality({c \in CommitPoints(code) : PendingAt(code, c) # 0})

IsLoopEvent(ev) == ev.type = "instruction" /\ ev.text[1] \in {"[", "]"}

\* The '[' and ']' dispatched so far that were reached with a nonzero offset.
CommittedLoops ==
    {j \in 1..Len(events) :
        IsLoopEvent(events[j]) /\ PendingAt(code, events[j].start + 1) # 0}

IsWhile(row) == row.text.k = "while"

\* C14: in tier 2 a loop boundary commits the offset first.  Right after a
\* '[' or a ']' is handled the offset is zero; if the moves since the commit
\* point before add up to k # 0, the pointer assignment for k is the row
\* before the loop header (for '[') or the last row (for ']'); the builder
\* holds one pointer assignment per loop boundary reached with a nonzero
\* offset and no other; and every loop header tests m[p].
Tier2CommitsAtLoops ==
    (args.optimizations = 2 /\ events # <<>>) =>
        LET ev == Last(events)
            k == PendingAt(code, ev.start + 1)
            rows == builder.code
            n == Len(rows)
        IN /\ \A j \in 1..n : IsWhile(rows[j]) => rows[j].text = WhileStmt(BarePointer)
           /\ Len(Moves(rows)) = Cardinality(CommittedLoops)
           /\ IsLoopEvent(ev) =>
                 /\ compiler.pointer_move = 0
                 /\ ev.text[1] = "[" =>
                       /\ IsWhile(rows[n])
                       /\ rows[n].indent = builder.indent - builder.indent_size
                       /\ k # 0 => rows[n - 1].text
                                      = MoveStmt(RelativePointer(k), args.memory)
                 /\ (ev.text[1] = "]" /\ k # 0) =>
                       rows[n].text = MoveStmt(RelativePointer(k), args.memory)

LoopAfterMoves ==
    /\ args.optimizations = 2
    /\ pc = "tokenize"
    /\ events # <<>>
    /\ Last(events).text = <<"[">>
    /\ PendingAt(code, Last(events).start + 1) < -1
    /\ Len(Moves(builder.code)) = 1

-----------------------------------------------------------------------------
(* Fusion                                                                  *)

\* How many times the character c occurs in the source.
Occurrences(src, c) == Cardinality({k \in 1..Len(src) : src[k] = c})

\* The counts of the cell statements with operator op among the first n
\* rows, added up.
RECURSIVE CellTotal(_, _, _)
CellTotal(rows, op, n) ==
    IF n = 0 THEN 0
    ELSE CellTotal(rows, op, n - 1)
         + (IF rows[n].text.k = "cell" /\ rows[n].text.op = op THEN rows[n].text.n ELSE 0)

\* C15: in tier 1 and in tier 2, once finish is handled no '+' and no '-' is
\* lost: the counts of the 'm[..] += n' statements add up to the number of
\* '+' in the source, and those of the 'm[..] -= n' statements to the number
\* of '-'.
NoArithmeticLost ==
    (args.optimizations \in {1, 2} /\ pc \in {"get_code", "returned"}) =>
        \A op \in {"+", "-"} :
           CellTotal(builder.code, op, Len(builder.code)) = Occurrences(code, op)

-----------------------------------------------------------------------------
(* Tier 2: relative addresses                                              *)

\* The statements that index the list m.
CellAccess == {"cell", "read", "print", "while"}

\* C16: in tier 2 every statement that reads or writes a cell addresses
\* m[p + k] for the pending offset k, and whatever the pointer p in
\* 0..memory_size-1 the index is within the list and denotes the cell
\* (p + k) mod memory_size, the cell tier 0 addresses after the same moves.
Tier2RelativeAddressInBounds ==
    (pc \in {"run", "ended"}) =>
        \A j \in 1..Len(machines[2].prog) :
           LET t == machines[2].prog[j].text
               m == Zeros(args.memory)
           IN t.k \in CellAccess =>
                 \A p \in 0..(args.memory - 1) :
                    LET x == PointerValue([p |-> p], t.ptr)
                    IN /\ ValidIndex(m, x)
                       /\ CellOf(m, x) = (x % args.memory) + 1

\* The fused statement of a run of n instructions op.
FusedStmt(op, n, memory_size) ==
    IF op \in {"+", "-"} THEN CellStmt(BarePointer, op, n)
    ELSE MoveStmt([sign |-> IF op = ">" THEN "+" ELSE "-", off |-> n], memory_size)

\* The rows an event appends for itself, after what it flushes: one
\* statement for a read, a write or a loop-open, comment rows for a comment
\* run, nothing for any other event.
OwnRows(ev, rows) ==
    CASE ev.type = "comment" -> \A j \in 1..Len(rows) : is_comment_row(rows[j])
      [] ev.type = "instruction" /\ ev.text[1] = "," ->
            Len(rows) = 1 /\ rows[1].text = ReadStmt(BarePointer)
      [] ev.type = "instruction" /\ ev.text[1] = "." ->
            Len(rows) = 1 /\ rows[1].text = PrintStmt(BarePointer)
      [] ev.type = "instruction" /\ ev.text[1] = "[" ->
            Len(rows) = 1 /\ rows[1].text = WhileStmt(BarePointer)
      [] OTHER -> rows = <<>>

\* One event handled by tier 1: the pending run is flushed first when the
\* event is a flush point, and only then.  A comment run can be a flush point
\* only when the compiler listens to comments.
FlushStep(comment_flushes) ==
    (args.optimizations = 1 /\ pc = "tokenize" /\ events' # events) =>
        LET ev == next_event(code, i)
            op == compiler.operation
            n == compiler.times
            old == builder.code
            new == builder'.code
            same == ev.type = "instruction" /\ ev.text[1] = op
            due == CASE ev.type = "finish" -> TRUE
                     [] ev.type = "comment" -> comment_flushes /\ args.comments
                     [] OTHER -> ~same
            flushed == IF due /\ n > 0 THEN 1 ELSE 0
        IN /\ Len(new) >= Len(old) + flushed
           /\ SubSeq(new, 1, Len(old)) = old
           /\ flushed = 1 =>
                 new[Len(old) + 1] = [indent |-> builder.indent, ch |-> builder.indent_char,
                                      text |-> FusedStmt(op, n, args.memory)]
           /\ OwnRows(ev, SubSeq(new, Len(old) + flushed + 1, Len(new)))
           /\ same => (compiler'.times = n + 1 /\ compiler'.operation = op)
           /\ (ev.type = "comment" /\ ~comment_flushes) => compiler' = compiler
           /\ (ev.type = "instruction" /\ ~same /\ exc' = None) =>
                 IF ev.text[1] \in accumulated
                 THEN compiler'.times = 1 /\ compiler'.operation = ev.text[1]
                 ELSE compiler'.times = 0 /\ compiler'.operation = None

\* C17 as claimed: in tier 1 the pending run is flushed, before anything the
\* event itself appends, when the next instruction is a different accumulable
\* one, when the next event is a read, a write, a loop-open, a loop-close or
\* a comment run, and at finish; a run of count 0 flushes to nothing and an
\* identical accumulable instruction never flushes.
Tier1FlushesAtComments == [][FlushStep(TRUE)]_vars

\* C17 as amended: the same flush points without the comment run, which
\* appends its comment rows and leaves the pending run as it is.
Tier1FlushPoints == [][FlushStep(FALSE)]_vars

RunAcrossComment ==
    /\ args.optimizations = 1
    /\ args.comments
    /\ pc = "get_code"
    /\ Len(events) = 4
    /\ events[2].type = "comment"
    /\ Len(builder.code) = 5
    /\ is_comment_row(builder.code[4])
    /\ builder.code[5].text.n = 2

-----------------------------------------------------------------------------
(* Wraparound: a run of moves between two loops, from any pointer          *)

\* Largest memory size, and longest run of moves, that are run.
MaxMemory == 3
MaxOffset == 6

\* n times the character c
Repeat(c, n) == [j \in 1..n |-> c]

\* A program that moves the pointer to start, and after a loop that is not
\* entered moves it by k, up to the next loop.
MoveSource(start, k) ==
    Repeat(">", start) \o <<"[", "-", "]">>
    \o Repeat(IF k > 0 THEN ">" ELSE "<", Abs(k)) \o <<"[", "-", "]">>

MoveInit ==
    /\ \E memory \in 1..MaxMemory, k \in (-MaxOffset)..MaxOffset :
          \E start \in 0..(memory - 1) :
             Entry(MoveSource(start, k), Args(memory, FALSE, FALSE, 4, FALSE, 0))
    /\ input = <<>>
    /\ machines = <<>>

MoveSpec == MoveInit /\ [][ExecNext]_vars

\* One move to the right, or to the left, on a memory of n cells.
SingleStep(p, right, n) ==
    IF right THEN (IF p = n - 1 THEN 0 ELSE p + 1)
    ELSE (IF p = 0 THEN n - 1 ELSE p - 1)

\* |k| single moves from p in the direction of k.
RECURSIVE SingleSteps(_, _, _)
SingleSteps(p, k, n) ==
    IF k = 0 THEN p
    ELSE IF k > 0 THEN SingleSteps(SingleStep(p, TRUE, n), k - 1, n)
    ELSE SingleSteps(SingleStep(p, FALSE, n), k + 1, n)

\* The offsets (from 1) of the two '[' of a MoveSource.
FirstLoop(src) == CHOOSE a \in 1..Len(src) : src[a] = "[" /\ \A b \in 1..(a - 1) : src[b] # "["
LastLoop(src) == CHOOSE a \in 1..Len(src) : src[a] = "[" /\ \A b \in (a + 1)..Len(src) : src[b] # "["

\* C18: the pointer the fused move of tier 1 and the commit of tier 2 assign
\* for an offset k, from a pointer p in 0..memory_size-1, is the pointer |k|
\* single wraparound moves from p lead to, for k of either sign and larger
\* than the memory; it is within 0..memory_size-1, and it is the pointer the
\* single moves of tier 0 leave.
WraparoundOnCommit ==
    Ended =>
        LET n == args.memory
            start == PendingAt(code, FirstLoop(code))
            k == PendingAt(code, LastLoop(code))
        IN \A t \in {1, 2} :
              /\ machines[t].status = "halted"
              /\ machines[t].p = SingleSteps(start, k, n)
              /\ machines[t].p \in 0..(n - 1)
              /\ machines[t].p = machines[0].p
              /\ Len(Moves(machines[t].prog)) <= 2

MovedBackAcrossZero ==
    /\ Ended
    /\ PendingAt(code, LastLoop(code)) < -args.memory
    /\ PendingAt(code, FirstLoop(code)) = 1
    /\ machines[2].p = 2
    /\ Len(Moves(machines[2].prog)) = 2

-----------------------------------------------------------------------------
(* Statement counts                                                        *)

\* The instructions from offset j on that repeat the one at offset j.
RECURSIVE RunLength(_, _)
RunLength(ins, j) ==
    IF j < Len(ins) /\ ins[j + 1] = ins[j] THEN 1 + RunLength(ins, j + 1) ELSE 1

\* The offsets a maximal run of identical accumulable instructions starts at.
RunStarts(ins) ==
    {j \in 1..Len(ins) : ins[j] \in accumulated /\ (j = 1 \/ ins[j - 1] # ins[j])}

\* The offsets of the reads, writes and loop-opens.
Singles(ins) == {j \in 1..Len(ins) : ins[j] \in {",", ".", "["}}

\* The statement for n instructions c.
StmtFor(c, n, memory_size) ==
    CASE c \in accumulated -> FusedStmt(c, n, memory_size)
      [] c = "," -> ReadStmt(BarePointer)
      [] c = "." -> PrintStmt(BarePointer)
      [] OTHER -> WhileStmt(BarePointer)

\* The rows after the three rows of the preamble are one statement for each
\* offset of points, in order, with the count counts gives.
RowsMatch(rows, ins, points, fused) ==
    /\ Len(rows) = 3 + Cardinality(points)
    /\ \A j \in points :
          rows[3 + Cardinality({x \in points : x <= j})].text
             = StmtFor(ins[j], IF fused THEN RunLength(ins, j) ELSE 1, args.memory)

\* C19: with comments disabled, after the three rows of the preamble, tier 0
\* appends one single-unit statement per instruction other than ']', and
\* tier 1 one fused statement per maximal run of identical accumulable
\* instructions, its count the length of the run, and one statement per read,
\* write and loop-open.
StatementCounts ==
    (~args.comments /\ pc \in {"get_code", "returned"}) =>
        LET ins == StripComments(code)
        IN /\ args.optimizations = 0 =>
                 RowsMatch(builder.code, ins, {j \in 1..Len(ins) : ins[j] # "]"}, FALSE)
           /\ args.optimizations = 1 =>
                 RowsMatch(builder.code, ins, RunStarts(ins) \cup Singles(ins), TRUE)

FusedRunCounted ==
    /\ args.optimizations = 1
    /\ ~args.comments
    /\ pc = "returned"
    /\ Len(StripComments(code)) = 3
    /\ Len(builder.code) = 5
    /\ builder.code[4].text = CellStmt(BarePointer, "+", 2)
    /\ builder.code[5].text.k = "move"

-----------------------------------------------------------------------------
(* Loop bodies                                                             *)

\* C20: for a well-formed source, in every tier, every loop header the
\* builder holds once finish is handled is followed by a statement at a
\* deeper indentation: every loop has a body, also the loop of a '[' that
\* its ']' follows at once.
EveryLoopHasBody ==
    (WellFormed(code) /\ pc \in {"get_code", "returned"}) =>
        LET rows == Statements(builder.code)
        IN \A j \in 1..Len(rows) :
              IsWhile(rows[j]) =>
                 (j < Len(rows) /\ rows[j + 1].indent > rows[j].indent)

====
